---------------------------- MODULE Spec2Model ----------------------------
(***************************************************************************)
(* Model of the two maintenance scripts of intl_phone_field:               *)
(*   scripts/update_lengths.py      the length patcher                     *)
(*   scripts/validate_countries.py  the extractor / comparator             *)
(*                                                                         *)
(* The text of lib/countries.dart is a sequence of lexical tokens.  The    *)
(* regular expressions of both scripts are matched on that sequence with   *)
(* the semantics of Python's re: leftmost match, non-overlapping matches,  *)
(* lazy gaps taking the first (shortest) extension from which the rest of  *)
(* the pattern still matches, and gaps that cross entry boundaries because *)
(* (?:.|\n) matches any character.                                         *)
(***************************************************************************)
EXTENDS Integers, Sequences, FiniteSets, TLC

VARIABLES
    pc,          \* position of the running script
    dartFile,    \* lib/countries.dart on disk (token sequence)
    csvRows,     \* reports/authoritative.csv on disk, as read by the patcher
    lengths,     \* patcher: code -> <<min_length, max_length>>
    source,      \* patcher: text read from lib/countries.dart
    updated,     \* patcher: result of update_lengths
    written,     \* patcher: number of DART_FILE.write_text calls
    stdout,      \* last line printed
    rc,          \* exit status (-1: still running, 1: uncaught exception)
    err,         \* message of the uncaught exception, "" when none
    runs,        \* patcher: completed runs of main
    matches,     \* patcher: the matches country_re.sub visited in `source`
    installed,   \* comparator: the optional packages that can be imported
    phonenumbers,  \* comparator: module global, FALSE when it is None
    pycountry,     \* comparator: module global, FALSE when it is None
    currentRows, \* comparator: rows parsed from lib/countries.dart
    authRows,    \* comparator: rows built by build_authoritative_rows
    seen,        \* comparator: build_authoritative_rows' set of codes
    idx,         \* comparator: index of the row the loop is at
    lookupLog,   \* comparator: what each external lookup answered
    diffs,       \* comparator: rows built by build_diff_rows
    reports      \* comparator: the report files written so far

patchVars == <<csvRows, lengths, source, updated, written, runs, matches>>

cmpVars ==
    <<installed, phonenumbers, pycountry, currentRows, authRows, seen, idx, lookupLog,
      diffs, reports>>

vars == <<pc, dartFile, stdout, rc, err, patchVars, cmpVars>>

---------------------------------------------------------------------------
(* Bounds *)

\* Lengths written in the data file range over 1..MaxLen, authoritative
\* lengths over 0..MaxLen (0 is the "unknown" sentinel).
MaxLen == 2

Codes == {"US", "GB"}

\* The name and the dial code written in the i-th entry of a file.
Names == <<"A", "B">>

Dials == <<"1", "44">>

---------------------------------------------------------------------------
(* Text of lib/countries.dart *)

\* A lexical token.  k: kind; s: the quoted string of a name/code/dialCode
\* field; n, z: the integer value of a minLength/maxLength numeral and
\* whether the numeral is written with a leading zero; nl: for a minLength
\* token, whether the white space after its comma contains a line break.
Tok(k, s, n, z, nl) == [k |-> k, s |-> s, n |-> n, z |-> z, nl |-> nl]

TOpen == Tok("open", "", 0, FALSE, FALSE)

TClose == Tok("close", "", 0, FALSE, FALSE)

TOther == Tok("other", "", 0, FALSE, FALSE)

TName(s) == Tok("name", s, 0, FALSE, FALSE)

TCode(s) == Tok("code", s, 0, FALSE, FALSE)

TDial(s) == Tok("dial", s, 0, FALSE, FALSE)

TMin(n, z, nl) == Tok("min", "", n, z, nl)

TMax(n, z) == Tok("max", "", n, z, FALSE)

\* int(text) of a \d+ numeral, and the numeral an f-string writes for an int.
IntOfNumeral(t) == t.n

\* The layouts of one Country(...) entry.  Every layout carries name, code,
\* dialCode, minLength, maxLength in that relative order.
\*   std  one field per line, a flag field between name and code
\*   one  the whole entry on one line
\*   zer  as std, the two numerals written with a leading zero
\*   mid  another field between minLength and maxLength
\*   aft  another field after maxLength
Layout(e, i) ==
    LET nm == TName(Names[i])
        cd == TCode(e.code)
        dl == TDial(Dials[i])
    IN  CASE e.fmt = "std" ->
               <<TOpen, nm, TOther, cd, dl, TMin(e.min, FALSE, TRUE), TMax(e.max, FALSE), TClose>>
          [] e.fmt = "one" ->
               <<TOpen, nm, cd, dl, TMin(e.min, FALSE, FALSE), TMax(e.max, FALSE), TClose>>
          [] e.fmt = "zer" ->
               <<TOpen, nm, TOther, cd, dl, TMin(e.min, TRUE, TRUE), TMax(e.max, TRUE), TClose>>
          [] e.fmt = "mid" ->
               <<TOpen, nm, cd, dl, TMin(e.min, FALSE, TRUE), TOther, TMax(e.max, FALSE), TClose>>
          [] OTHER ->
               <<TOpen, nm, cd, dl, TMin(e.min, FALSE, TRUE), TMax(e.max, FALSE), TOther, TClose>>

RECURSIVE RenderFrom(_, _)
RenderFrom(es, i) ==
    IF i > Len(es) THEN <<>> ELSE Layout(es[i], i) \o RenderFrom(es, i + 1)

Render(es) == RenderFrom(es, 1)

EntrySpecs(fmts) ==
    [code : Codes, min : 1..MaxLen, max : 1..MaxLen, fmt : fmts]

\* A data file: one entry, or an entry and its neighbour.
FilesOf(fmts) ==
    {Render(<<a>>) : a \in EntrySpecs(fmts)}
        \cup {Render(<<a, b>>) : a \in EntrySpecs(fmts), b \in EntrySpecs(fmts)}

SetMin(S) == CHOOSE x \in S : \A y \in S : x <= y

---------------------------------------------------------------------------
(* update_lengths.py *)

\* A field of a CSV row: the text of an integer n (int: TRUE) or any other text.
CsvInt(n) == [int |-> TRUE, n |-> n]

CsvText == [int |-> FALSE, n |-> 0]

\* load_authoritative: rows in file order, later rows overwrite earlier
\* ones; a row whose min_length or max_length is no integer, or is <= 0, is
\* skipped.
RECURSIVE LoadFrom(_, _, _)
LoadFrom(rows, i, data) ==
    IF i > Len(rows) THEN data
    ELSE LET r == rows[i]
         IN  IF ~(r.min_length.int /\ r.max_length.int) THEN LoadFrom(rows, i + 1, data)
             ELSE IF r.min_length.n <= 0 \/ r.max_length.n <= 0 THEN LoadFrom(rows, i + 1, data)
             ELSE LoadFrom(rows, i + 1,
                    [c \in DOMAIN data \cup {r.code} |->
                        IF c = r.code THEN <<r.min_length.n, r.max_length.n>> ELSE data[c]])

load_authoritative(rows) == LoadFrom(rows, 1, <<>>)

\* country_re at token level: minLength followed, after a comma and white
\* space holding a line break, by maxLength.
MinMaxPairAt(toks, k) ==
    /\ k + 1 <= Len(toks)
    /\ toks[k].k = "min"
    /\ toks[k].nl
    /\ toks[k + 1].k = "max"

\* The code tokens after `i` from which country_re can still be completed.
CodeCandidates(toks, i) ==
    {j \in (i + 1)..Len(toks) :
        /\ toks[j].k = "code"
        /\ \E k \in (j + 1)..Len(toks) : MinMaxPairAt(toks, k)}

\* country_re.match at the Country( token i.
country_re_at(toks, i) ==
    LET j == SetMin(CodeCandidates(toks, i))
        k == SetMin({x \in (j + 1)..Len(toks) : MinMaxPairAt(toks, x)})
    IN  [start |-> i, code |-> j, min |-> k, max |-> k + 1]

CanMatchAt(toks, i) == toks[i].k = "open" /\ CodeCandidates(toks, i) # {}

\* The successive non-overlapping matches re.sub visits, from token `from`.
RECURSIVE MatchesFrom(_, _)
MatchesFrom(toks, from) ==
    LET starts == {i \in from..Len(toks) : CanMatchAt(toks, i)}
    IN  IF starts = {} THEN <<>>
        ELSE LET m == country_re_at(toks, SetMin(starts))
             IN  <<m>> \o MatchesFrom(toks, m.max + 1)

Matches(toks) == MatchesFrom(toks, 1)

\* Mutant: the authoritative minimum is always taken.
new_min_always_auth(auth_min, current_min) == auth_min

\* Mutant: the minimum is never lowered.
new_min_never_lowers(auth_min, current_min) == current_min

new_min(auth_min, current_min) == IF auth_min < current_min THEN auth_min ELSE current_min

\* Mutant: maxLength is left as it is, as the module docstring says.
new_max_keeps_current(auth_max, current_max) == current_max

new_max(auth_max, current_max) == IF auth_max > 0 THEN auth_max ELSE current_max

\* Whether replacer returns m.group(0).
KeepsBlock(toks, m, L) ==
    LET code == toks[m.code].s
    IN  \/ code \notin DOMAIN L
        \/ L[code][1] <= 0
        \/ /\ new_min(L[code][1], IntOfNumeral(toks[m.min])) = IntOfNumeral(toks[m.min])
           /\ new_max(L[code][2], IntOfNumeral(toks[m.max])) = IntOfNumeral(toks[m.max])

\* replacer: the token written at position p of match m.
replacer(toks, m, L, p) ==
    IF KeepsBlock(toks, m, L) THEN toks[p]
    ELSE LET auth == L[toks[m.code].s]
         IN  IF p = m.min
                THEN TMin(new_min(auth[1], IntOfNumeral(toks[m.min])), FALSE, toks[p].nl)
             ELSE IF p = m.max
                THEN TMax(new_max(auth[2], IntOfNumeral(toks[m.max])), FALSE)
             ELSE toks[p]

\* country_re.sub(replacer, dart_source), ms being the matches it visits.
Substitute(toks, ms, L) ==
    [p \in 1..Len(toks) |->
        IF \E x \in 1..Len(ms) : p \in ms[x].start..ms[x].max
           THEN LET x == CHOOSE x \in 1..Len(ms) : p \in ms[x].start..ms[x].max
                IN  replacer(toks, ms[x], L, p)
           ELSE toks[p]]

update_lengths(toks, L) == Substitute(toks, Matches(toks), L)

---------------------------------------------------------------------------
(* The patcher as a state machine *)

AuthPairs == (0..MaxLen) \X (0..MaxLen)

\* Mappings a caller can hand to update_lengths: no code, one code, or
\* every code mapped to one pair.
Mappings ==
    {<<>>} \cup UNION {[{c} -> AuthPairs] : c \in Codes} \cup {[c \in Codes |-> p] : p \in AuthPairs}

CsvFields == {CsvInt(n) : n \in 0..MaxLen} \cup {CsvText}

CsvFiles ==
    {<<>>} \cup {<<r>> : r \in [code : Codes, min_length : CsvFields, max_length : CsvFields]}

PatchFormats == {"std", "one", "zer"}

CmpIdle ==
    /\ installed = {}
    /\ phonenumbers = FALSE
    /\ pycountry = FALSE
    /\ currentRows = <<>>
    /\ authRows = <<>>
    /\ seen = {}
    /\ idx = 0
    /\ lookupLog = <<>>
    /\ diffs = <<>>
    /\ reports = {}

\* pc = "call": update_lengths is about to be called on `lengths` directly;
\* pc = "main": the script's main is about to run.
InitPatch ==
    /\ dartFile \in FilesOf(PatchFormats)
    /\ \/ pc = "main" /\ csvRows \in CsvFiles /\ lengths = <<>>
       \/ pc = "call" /\ csvRows = <<>> /\ lengths \in Mappings
    /\ source = <<>>
    /\ updated = <<>>
    /\ matches = <<>>
    /\ written = 0
    /\ stdout = ""
    /\ rc = -1
    /\ err = ""
    /\ runs = 0
    /\ CmpIdle

\* update_lengths(dart_source, lengths) called as a function.
CallUpdateLengths ==
    /\ pc = "call"
    /\ source' = dartFile
    /\ updated' = update_lengths(dartFile, lengths)
    /\ matches' = Matches(dartFile)
    /\ pc' = "returned"
    /\ UNCHANGED <<dartFile, stdout, rc, err, csvRows, lengths, written, runs, cmpVars>>

\* main, lines 84-86.
MainLoadAndUpdate ==
    /\ pc = "main"
    /\ lengths' = load_authoritative(csvRows)
    /\ source' = dartFile
    /\ matches' = Matches(dartFile)
    /\ updated' = update_lengths(dartFile, load_authoritative(csvRows))
    /\ pc' = "compare"
    /\ UNCHANGED <<dartFile, stdout, rc, err, csvRows, written, runs, cmpVars>>

\* main, lines 87-89 and 92.
MainWrite ==
    /\ pc = "compare"
    /\ updated # source
    /\ dartFile' = updated
    /\ written' = written + 1
    /\ stdout' = "Updated lib/countries.dart min/max lengths."
    /\ rc' = 0
    /\ runs' = runs + 1
    /\ pc' = "exit"
    /\ UNCHANGED <<err, csvRows, lengths, source, updated, matches, cmpVars>>

\* main, lines 90-92.
MainNoChanges ==
    /\ pc = "compare"
    /\ updated = source
    /\ stdout' = "No changes applied."
    /\ rc' = 0
    /\ runs' = runs + 1
    /\ pc' = "exit"
    /\ UNCHANGED <<dartFile, err, csvRows, lengths, source, updated, matches, written, cmpVars>>

\* The script is run a second time, on the files the first run left.
RunAgain ==
    /\ pc = "exit"
    /\ runs = 1
    /\ pc' = "main"
    /\ rc' = -1
    /\ stdout' = ""
    /\ written' = 0
    /\ UNCHANGED <<dartFile, err, csvRows, lengths, source, updated, matches, runs, cmpVars>>

NextPatch ==
    \/ CallUpdateLengths
    \/ MainLoadAndUpdate
    \/ MainWrite
    \/ MainNoChanges
    \/ RunAgain

SpecPatch == InitPatch /\ [][NextPatch]_vars

---------------------------------------------------------------------------
(* validate_countries.py *)

CountryRow(code, name, dial_code, min_length, max_length) ==
    [code |-> code, name |-> name, dial_code |-> dial_code,
     min_length |-> min_length, max_length |-> max_length]

\* COUNTRY_ENTRY_RE at token level: its tail is minLength, maxLength and
\* the closing parenthesis with nothing but white space and commas between.
EntryTailAt(toks, k) ==
    /\ k + 2 <= Len(toks)
    /\ toks[k].k = "min"
    /\ toks[k + 1].k = "max"
    /\ toks[k + 2].k = "close"

\* The dialCode tokens after j from which the tail can still be reached.
DialCandidates(toks, j) ==
    {d \in (j + 1)..Len(toks) :
        /\ toks[d].k = "dial"
        /\ \E k \in (d + 1)..Len(toks) : EntryTailAt(toks, k)}

\* The code tokens after the name from which the pattern can be completed.
EntryCodeCandidates(toks, i) ==
    {j \in (i + 2)..Len(toks) : toks[j].k = "code" /\ DialCandidates(toks, j) # {}}

\* Country( must be followed at once by the name field.
EntryCanMatchAt(toks, i) ==
    /\ i + 1 <= Len(toks)
    /\ toks[i].k = "open"
    /\ toks[i + 1].k = "name"
    /\ EntryCodeCandidates(toks, i) # {}

\* COUNTRY_ENTRY_RE.match at the Country( token i: each lazy gap stops at
\* the first token from which the rest matches.
COUNTRY_ENTRY_RE_at(toks, i) ==
    LET j == SetMin(EntryCodeCandidates(toks, i))
        d == SetMin(DialCandidates(toks, j))
        k == SetMin({x \in (d + 1)..Len(toks) : EntryTailAt(toks, x)})
    IN  [name |-> i + 1, code |-> j, dial |-> d, min |-> k, max |-> k + 1, end |-> k + 2]

\* finditer, and the CountryRow built from each match.
RECURSIVE ParseFrom(_, _)
ParseFrom(toks, from) ==
    LET starts == {i \in from..Len(toks) : EntryCanMatchAt(toks, i)}
    IN  IF starts = {} THEN <<>>
        ELSE LET m == COUNTRY_ENTRY_RE_at(toks, SetMin(starts))
             IN  <<CountryRow(toks[m.code].s, toks[m.name].s, toks[m.dial].s,
                              IntOfNumeral(toks[m.min]), IntOfNumeral(toks[m.max]))>>
                     \o ParseFrom(toks, m.end + 1)

\* parse_countries_dart without its final check for "no rows".
parse_countries_dart(toks) == ParseFrom(toks, 1)

\* str(dial_code) for the calling codes the provider answers with.
DialStr(n) == CASE n = 1 -> "1" [] n = 44 -> "44" [] OTHER -> "?"

NoData == [found |-> FALSE, dial_code |-> "", min_length |-> 0, max_length |-> 0]

SetMax(S) == CHOOSE x \in S : \A y \in S : x >= y

\* Mutant: a region with no possible length is reported as "no data".
get_authoritative_row_for_region_blank(resp) ==
    IF resp.meta # "ok" THEN NoData
    ELSE IF resp.dial <= 0 THEN NoData
    ELSE LET general == {n \in resp.general : n > 0}
             fallback == {n \in resp.mobile \cup resp.fixed_line : n > 0}
             ls == IF general # {} THEN general ELSE fallback
         IN  IF ls = {}
                THEN NoData
                ELSE [found |-> TRUE, dial_code |-> DialStr(resp.dial),
                      min_length |-> SetMin(ls), max_length |-> SetMax(ls)]

\* get_authoritative_row_for_region, given what the phone-metadata provider
\* answers for the region.  resp.meta: "ok", "none" (no metadata), "noclass"
\* (no PhoneMetadata class found) or "raises"; resp.dial: the result of
\* country_code_for_region; resp.general, resp.mobile, resp.fixed_line: the
\* possible_length lists.
get_authoritative_row_for_region(resp) ==
    IF resp.meta # "ok" THEN NoData
    ELSE IF resp.dial <= 0 THEN NoData
    ELSE LET general == {n \in resp.general : n > 0}
             fallback == {n \in resp.mobile \cup resp.fixed_line : n > 0}
             ls == IF general # {} THEN general ELSE fallback
         IN  IF ls = {}
                THEN [found |-> TRUE, dial_code |-> DialStr(resp.dial),
                      min_length |-> 0, max_length |-> 0]
                ELSE [found |-> TRUE, dial_code |-> DialStr(resp.dial),
                      min_length |-> SetMin(ls), max_length |-> SetMax(ls)]

\* resolve_country_name, given the module global and what the
\* country-reference provider answers.
resolve_country_name(pyc, resp, fallback_name) ==
    IF ~pyc THEN fallback_name
    ELSE IF resp.kind # "country" THEN fallback_name
    ELSE IF resp.common_name # "" THEN resp.common_name
    ELSE IF resp.official_name # "" THEN resp.official_name
    ELSE IF resp.name # "" THEN resp.name
    ELSE fallback_name

\* index_by_code: a later row of a code replaces an earlier one.
RowsOfCode(rows, code) == {i \in 1..Len(rows) : rows[i].code = code}

\* Mutant: the first row of a code is kept.
index_by_code_first(rows) ==
    [c \in {rows[i].code : i \in 1..Len(rows)} |-> rows[SetMin(RowsOfCode(rows, c))]]

index_by_code(rows) ==
    [c \in {rows[i].code : i \in 1..Len(rows)} |-> rows[SetMax(RowsOfCode(rows, c))]]

\* The text of a report column: str(n), or the empty string.
Str(n) == [blank |-> FALSE, n |-> n]

Blank == [blank |-> TRUE, n |-> 0]

DiffRow(code, cur, an, ad, amin, amax, note) ==
    [code |-> code, current_name |-> cur.name, authoritative_name |-> an,
     current_dial_code |-> cur.dial_code, authoritative_dial_code |-> ad,
     current_min_length |-> Str(cur.min_length), authoritative_min_length |-> amin,
     current_max_length |-> Str(cur.max_length), authoritative_max_length |-> amax,
     note |-> note]

has_diff(cur, auth) ==
    \/ cur.dial_code # auth.dial_code
    \/ cur.min_length # auth.min_length
    \/ cur.max_length # auth.max_length

\* build_diff_rows: the keys of current_by_code in the order of their first
\* insertion, each with the row index_by_code kept.
RECURSIVE DiffFrom(_, _, _)
DiffFrom(cur, auth, i) ==
    IF i > Len(cur) THEN <<>>
    ELSE LET code == cur[i].code
             c == index_by_code(cur)[code]
             auth_by_code == index_by_code(auth)
         IN  IF \E h \in 1..(i - 1) : cur[h].code = code THEN DiffFrom(cur, auth, i + 1)
             ELSE IF code \notin DOMAIN auth_by_code
                THEN <<DiffRow(code, c, "", "", Blank, Blank, "Missing in authoritative")>>
                        \o DiffFrom(cur, auth, i + 1)
             ELSE IF has_diff(c, auth_by_code[code])
                THEN <<DiffRow(code, c, auth_by_code[code].name, auth_by_code[code].dial_code,
                               Str(auth_by_code[code].min_length),
                               Str(auth_by_code[code].max_length), "")>>
                        \o DiffFrom(cur, auth, i + 1)
             ELSE DiffFrom(cur, auth, i + 1)

build_diff_rows(cur, auth) == DiffFrom(cur, auth, 1)

---------------------------------------------------------------------------
(* The comparator as a state machine *)

Packages == {"phonenumbers", "pycountry"}

MissingDependencies == "Missing dependencies. Install with: pip install phonenumbers pycountry"

NoEntriesParsed == "No Country(...) entries parsed from countries.dart"

\* What the phone-metadata provider can answer for one region.
LengthLists == SUBSET (1..MaxLen)

PhoneResponse(meta, dial, general, mobile, fixed_line) ==
    [meta |-> meta, dial |-> dial, general |-> general, mobile |-> mobile,
     fixed_line |-> fixed_line]

PhoneResponses ==
    {PhoneResponse(m, 0, {}, {}, {}) : m \in {"raises", "none", "noclass", "ok"}}
        \cup {PhoneResponse("ok", d, g, mo, fx) :
                d \in {1, 44}, g \in LengthLists \cup {{-1}}, mo \in LengthLists,
                fx \in LengthLists}

\* What the country-reference provider can answer for one code.
NameResponse(kind, common_name, official_name, name) ==
    [kind |-> kind, common_name |-> common_name, official_name |-> official_name,
     name |-> name]

NameResponses ==
    {NameResponse("raises", "", "", ""), NameResponse("none", "", "", ""),
     NameResponse("country", "Common", "Official", "Name"),
     NameResponse("country", "", "Official", "Name"),
     NameResponse("country", "", "", "Name"),
     NameResponse("country", "", "", "")}

\* The step of the lookup that failed, for the log.
LookupFailure(resp) ==
    IF resp.meta # "ok" THEN "metadata"
    ELSE IF resp.dial <= 0 THEN "calling_code"
    ELSE IF {n \in resp.general \cup resp.mobile \cup resp.fixed_line : n > 0} = {}
        THEN "possible_length"
    ELSE "none"

PatchIdle ==
    /\ csvRows = <<>>
    /\ lengths = <<>>
    /\ source = <<>>
    /\ updated = <<>>
    /\ matches = <<>>
    /\ written = 0
    /\ runs = 0

CmpFormats == {"std", "mid"}

CmpFiles ==
    LET es == [code : Codes, min : {1}, max : {MaxLen}, fmt : CmpFormats]
    IN  {Render(<<a>>) : a \in es} \cup {Render(<<a, b>>) : a \in es, b \in es}

InitCmp ==
    /\ pc = "load"
    /\ dartFile \in CmpFiles
    /\ installed \in SUBSET Packages
    /\ phonenumbers = FALSE
    /\ pycountry = FALSE
    /\ currentRows = <<>>
    /\ authRows = <<>>
    /\ seen = {}
    /\ idx = 0
    /\ lookupLog = <<>>
    /\ diffs = <<>>
    /\ reports = {}
    /\ stdout = ""
    /\ rc = -1
    /\ err = ""
    /\ PatchIdle

\* Mutant: the imports are not guarded, a missing package ends the load.
CmpImport_unguarded ==
    /\ pc = "load"
    /\ IF installed = Packages
          THEN /\ phonenumbers' = TRUE
               /\ pycountry' = TRUE
               /\ pc' = "main"
               /\ UNCHANGED <<rc, err>>
          ELSE /\ pc' = "crashed"
               /\ rc' = 1
               /\ err' = "ModuleNotFoundError"
               /\ UNCHANGED <<phonenumbers, pycountry>>
    /\ UNCHANGED <<dartFile, stdout, patchVars, installed, currentRows, authRows,
                   seen, idx, lookupLog, diffs, reports>>

\* Module load, lines 21-29: a failed import leaves the global None.
CmpImport ==
    /\ pc = "load"
    /\ phonenumbers' = ("phonenumbers" \in installed)
    /\ pycountry' = ("pycountry" \in installed)
    /\ pc' = "main"
    /\ UNCHANGED <<dartFile, stdout, rc, err, patchVars, installed, currentRows, authRows,
                   seen, idx, lookupLog, diffs, reports>>

\* main, lines 309-310.
CmpParse ==
    /\ pc = "main"
    /\ parse_countries_dart(dartFile) # <<>>
    /\ currentRows' = parse_countries_dart(dartFile)
    /\ reports' = reports \cup {"current.csv"}
    /\ idx' = 1
    /\ pc' = "auth"
    /\ UNCHANGED <<dartFile, stdout, rc, err, patchVars, installed, phonenumbers, pycountry,
                   authRows, seen, lookupLog, diffs>>

\* parse_countries_dart, lines 75-76: the exception ends main.
CmpParseFails ==
    /\ pc = "main"
    /\ parse_countries_dart(dartFile) = <<>>
    /\ err' = NoEntriesParsed
    /\ rc' = 1
    /\ pc' = "crashed"
    /\ UNCHANGED <<dartFile, stdout, patchVars, cmpVars>>

\* build_authoritative_rows, lines 182-183.
AuthSkipSeen ==
    /\ pc = "auth"
    /\ idx <= Len(currentRows)
    /\ currentRows[idx].code \in seen
    /\ idx' = idx + 1
    /\ UNCHANGED <<pc, dartFile, stdout, rc, err, patchVars, installed, phonenumbers,
                   pycountry, currentRows, authRows, seen, lookupLog, diffs, reports>>

\* build_authoritative_rows, lines 184-185, with lines 105-108 of the lookup.
AuthMissingDependency ==
    /\ pc = "auth"
    /\ idx <= Len(currentRows)
    /\ currentRows[idx].code \notin seen
    /\ ~phonenumbers
    /\ seen' = seen \cup {currentRows[idx].code}
    /\ err' = MissingDependencies
    /\ rc' = 1
    /\ pc' = "crashed"
    /\ UNCHANGED <<dartFile, stdout, patchVars, installed, phonenumbers, pycountry,
                   currentRows, authRows, idx, lookupLog, diffs, reports>>

\* build_authoritative_rows, lines 184-207: one lookup and the row appended.
AuthLookup ==
    /\ pc = "auth"
    /\ idx <= Len(currentRows)
    /\ currentRows[idx].code \notin seen
    /\ phonenumbers
    /\ \E resp \in PhoneResponses, named \in NameResponses :
          LET r == currentRows[idx]
              lookup == get_authoritative_row_for_region(resp)
          IN  /\ authRows' = Append(authRows,
                    CountryRow(r.code, resolve_country_name(pycountry, named, r.name),
                               lookup.dial_code, lookup.min_length, lookup.max_length))
              /\ lookupLog' = Append(lookupLog,
                    [code |-> r.code, fail |-> LookupFailure(resp), dial |-> resp.dial])
    /\ seen' = seen \cup {currentRows[idx].code}
    /\ idx' = idx + 1
    /\ UNCHANGED <<pc, dartFile, stdout, rc, err, patchVars, installed, phonenumbers,
                   pycountry, currentRows, diffs, reports>>

\* main, line 313.
CmpWriteAuthoritative ==
    /\ pc = "auth"
    /\ idx > Len(currentRows)
    /\ reports' = reports \cup {"authoritative.csv"}
    /\ pc' = "diff"
    /\ UNCHANGED <<dartFile, stdout, rc, err, patchVars, installed, phonenumbers, pycountry,
                   currentRows, authRows, seen, idx, lookupLog, diffs>>

\* main, lines 315-322.
CmpDiffAndReport ==
    /\ pc = "diff"
    /\ diffs' = build_diff_rows(currentRows, authRows)
    /\ reports' = reports \cup {"diff.csv"}
    /\ stdout' = "Total countries | Differences"
    /\ rc' = 0
    /\ pc' = "done"
    /\ UNCHANGED <<dartFile, err, patchVars, installed, phonenumbers, pycountry,
                   currentRows, authRows, seen, idx, lookupLog>>

NextCmp ==
    \/ CmpImport
    \/ CmpParse
    \/ CmpParseFails
    \/ AuthSkipSeen
    \/ AuthMissingDependency
    \/ AuthLookup
    \/ CmpWriteAuthoritative
    \/ CmpDiffAndReport

SpecCmp == InitCmp /\ [][NextCmp]_vars

\* The parser alone, on files of every layout.
ParseFormats == {"std", "one", "mid", "aft"}

InitParse ==
    /\ pc = "main"
    /\ dartFile \in FilesOf(ParseFormats)
    /\ installed = Packages
    /\ phonenumbers = TRUE
    /\ pycountry = TRUE
    /\ currentRows = <<>>
    /\ authRows = <<>>
    /\ seen = {}
    /\ idx = 0
    /\ lookupLog = <<>>
    /\ diffs = <<>>
    /\ reports = {}
    /\ stdout = ""
    /\ rc = -1
    /\ err = ""
    /\ PatchIdle

NextParse == CmpParse \/ CmpParseFails

SpecParse == InitParse /\ [][NextParse]_vars

\* build_diff_rows alone, on every pair of small datasets.
DiffRowsIn ==
    [code : Codes, name : {"A"}, dial_code : {"1", "44"},
     min_length : {1, MaxLen}, max_length : {1, MaxLen}]

DiffDatasets == {<<a>> : a \in DiffRowsIn} \cup {<<a, b>> : a \in DiffRowsIn, b \in DiffRowsIn}

InitDiff ==
    /\ pc = "diff"
    /\ dartFile = <<>>
    /\ installed = Packages
    /\ phonenumbers = TRUE
    /\ pycountry = TRUE
    /\ currentRows \in DiffDatasets
    /\ authRows \in DiffDatasets \cup {<<>>}
    /\ seen = {}
    /\ idx = 0
    /\ lookupLog = <<>>
    /\ diffs = <<>>
    /\ reports = {"current.csv", "authoritative.csv"}
    /\ stdout = ""
    /\ rc = -1
    /\ err = ""
    /\ PatchIdle

SpecDiff == InitDiff /\ [][CmpDiffAndReport]_vars

---------------------------------------------------------------------------
(* Reading the patcher's input and output *)

\* update_lengths has been applied: source and updated are its input and output.
Applied == pc \in {"returned", "compare", "exit"}

\* The Country( tokens of a text, the extent of the entry each one opens, and
\* the entry's own code.
OpenPositions(toks) == {p \in 1..Len(toks) : toks[p].k = "open"}

EntryEnd(toks, o) == SetMin({p \in o..Len(toks) : toks[p].k = "close"})

EntryField(toks, o, kind) ==
    toks[CHOOSE p \in o..EntryEnd(toks, o) : toks[p].k = kind]

Mapped(L, code) == code \in DOMAIN L /\ L[code][1] > 0

MinOf(a, b) == IF a < b THEN a ELSE b

SourceMatches == matches

MatchCode(m) == source[m.code].s

---------------------------------------------------------------------------
(* C1: update_lengths never raises a minimum.  For every match of          *)
(* country_re the minLength written is min(current_min, auth_min) when the *)
(* match's code has an authoritative pair with auth_min > 0, and           *)
(* current_min otherwise; and no minLength of the output is greater than   *)
(* the minLength at the same place of the input.                           *)
C1_MinNeverRaised ==
    Applied =>
        /\ \A x \in 1..Len(SourceMatches) :
              LET m == SourceMatches[x]
                  cur == source[m.min].n
              IN  updated[m.min].n =
                     IF Mapped(lengths, MatchCode(m))
                        THEN MinOf(cur, lengths[MatchCode(m)][1])
                        ELSE cur
        /\ Len(updated) = Len(source)
        /\ \A p \in 1..Len(source) :
              source[p].k = "min" => updated[p].k = "min" /\ updated[p].n <= source[p].n

\* A minimum was lowered to the authoritative one.
C1_Witness ==
    /\ Applied
    /\ \E x \in 1..Len(SourceMatches) :
          LET m == SourceMatches[x]
          IN  /\ Mapped(lengths, MatchCode(m))
              /\ lengths[MatchCode(m)][1] < source[m.min].n
              /\ updated[m.min].n = lengths[MatchCode(m)][1]

(* C2: the updater rewrites only minLength: every maxLength, name, code    *)
(* and dialCode of the output equals the one of the input.                 *)
C2_OnlyMinRewritten ==
    Applied =>
        \A p \in 1..Len(source) :
            source[p].k \in {"max", "name", "code", "dial"} =>
                /\ updated[p].k = source[p].k
                /\ updated[p].n = source[p].n
                /\ updated[p].s = source[p].s

C4_UnmappedEntryUnchanged ==
    Applied =>
        \A o \in OpenPositions(source) :
            ~Mapped(lengths, EntryField(source, o, "code").s) =>
                \A p \in o..EntryEnd(source, o) : updated[p] = source[p]

(* C9: when the mapping gives, for every code it contains, exactly the     *)
(* minLength and maxLength the file has for that code, update_lengths      *)
(* returns its input, and main then writes nothing, prints "No changes     *)
(* applied." and returns 0.                                                *)
MappingEqualsFile ==
    \A o \in OpenPositions(source) :
        LET code == EntryField(source, o, "code").s
        IN  code \in DOMAIN lengths =>
                lengths[code] = <<EntryField(source, o, "min").n, EntryField(source, o, "max").n>>

C9_RoundTrip ==
    (Applied /\ MappingEqualsFile) =>
        /\ updated = source
        /\ (pc = "exit" /\ runs = 1) =>
              written = 0 /\ stdout = "No changes applied." /\ rc = 0

---------------------------------------------------------------------------
(* Reading the comparator's input and output *)

SameFields(a, b) ==
    /\ a.dial_code = b.dial_code
    /\ a.min_length = b.min_length
    /\ a.max_length = b.max_length

DiffRowsFor(c) == {i \in 1..Len(diffs) : diffs[i].code = c}

InBoth(c) == RowsOfCode(currentRows, c) # {} /\ RowsOfCode(authRows, c) # {}

LastCurrent(c) == currentRows[SetMax(RowsOfCode(currentRows, c))]

LastAuthoritative(c) == authRows[SetMax(RowsOfCode(authRows, c))]

\* The record each entry of a text spells out, entry by entry.
RECURSIVE OwnRowsFrom(_, _)
OwnRowsFrom(toks, from) ==
    LET opens == {o \in OpenPositions(toks) : o >= from}
    IN  IF opens = {} THEN <<>>
        ELSE LET o == SetMin(opens)
             IN  <<CountryRow(EntryField(toks, o, "code").s, EntryField(toks, o, "name").s,
                              EntryField(toks, o, "dial").s, EntryField(toks, o, "min").n,
                              EntryField(toks, o, "max").n)>>
                     \o OwnRowsFrom(toks, o + 1)

OwnRows(toks) == OwnRowsFrom(toks, 1)

DistinctCodes(rows) == {rows[i].code : i \in 1..Len(rows)}

AllReports == {"current.csv", "authoritative.csv", "diff.csv"}

(* C5 as stated: for a code present in both datasets, no diff row when     *)
(* the three fields are equal on both sides, and exactly one diff row when *)
(* a current record of the code differs from the authoritative one, also   *)
(* when the current dataset lists the code more than once.  (Stated for an *)
(* authoritative dataset that lists the code once, as                      *)
(* build_authoritative_rows produces it.)                                  *)
C5_DiffExact ==
    pc = "done" =>
        \A c \in Codes :
            (InBoth(c) /\ Cardinality(RowsOfCode(authRows, c)) = 1) =>
                /\ (\A i \in RowsOfCode(currentRows, c), j \in RowsOfCode(authRows, c) :
                        SameFields(currentRows[i], authRows[j]))
                      => DiffRowsFor(c) = {}
                /\ (\E i \in RowsOfCode(currentRows, c), j \in RowsOfCode(authRows, c) :
                        ~SameFields(currentRows[i], authRows[j]))
                      => Cardinality(DiffRowsFor(c)) = 1

(* C5 amended: the records compared are the last one listed for the code   *)
(* in each dataset.  Equal fields: no diff row; a differing field: exactly *)
(* one diff row, carrying the values of those two records.                 *)
C5_DiffExactOnLastListed ==
    pc = "done" =>
        \A c \in Codes :
            InBoth(c) =>
                IF SameFields(LastCurrent(c), LastAuthoritative(c))
                   THEN DiffRowsFor(c) = {}
                   ELSE /\ Cardinality(DiffRowsFor(c)) = 1
                        /\ \A i \in DiffRowsFor(c) :
                              diffs[i] = DiffRow(c, LastCurrent(c), LastAuthoritative(c).name,
                                                 LastAuthoritative(c).dial_code,
                                                 Str(LastAuthoritative(c).min_length),
                                                 Str(LastAuthoritative(c).max_length), "")

\* A code listed twice: its first record differs from the authoritative
\* one, its last record equals it, and no diff row is written.
C5_Witness ==
    /\ pc = "done"
    /\ \E c \in Codes :
          /\ InBoth(c)
          /\ Cardinality(RowsOfCode(currentRows, c)) = 2
          /\ ~SameFields(currentRows[SetMin(RowsOfCode(currentRows, c))], LastAuthoritative(c))
          /\ SameFields(LastCurrent(c), LastAuthoritative(c))
          /\ DiffRowsFor(c) = {}

LogConsistent ==
    /\ Len(lookupLog) = Len(authRows)
    /\ \A i \in 1..Len(lookupLog) : authRows[i].code = lookupLog[i].code

RunGoesOn ==
    /\ pc = "crashed" => err \in {NoEntriesParsed, MissingDependencies}
    /\ (pc \in {"diff", "done"}) =>
          /\ DistinctCodes(authRows) = DistinctCodes(currentRows)
          /\ Len(authRows) = Cardinality(DistinctCodes(currentRows))
    /\ pc = "done" => rc = 0 /\ reports = AllReports
    /\ (phonenumbers /\ pc \in {"auth", "diff"}) => ENABLED NextCmp

LookupAttempted == seen # {}

(* C7 as stated: when either provider is missing, loading does not fail    *)
(* and the first lookup attempted raises the fatal error.                  *)
C7_EitherMissingIsFatal ==
    /\ pc = "crashed" => err \in {NoEntriesParsed, MissingDependencies}
    /\ (installed # Packages /\ LookupAttempted) =>
          pc = "crashed" /\ err = MissingDependencies

(* C7 amended: loading never fails.  When the phone-metadata package is    *)
(* missing, the first lookup attempted raises the fatal error, after       *)
(* current.csv and before any authoritative row.  When only the            *)
(* country-reference package is missing no error is raised: every          *)
(* authoritative row carries the name of the first current record of its   *)
(* code.                                                                   *)
C7_MissingPhoneProviderIsFatal ==
    /\ pc = "crashed" => err \in {NoEntriesParsed, MissingDependencies}
    /\ pc = "main" => rc = -1 /\ err = ""
    /\ ("phonenumbers" \notin installed /\ LookupAttempted) =>
          /\ pc = "crashed"
          /\ err = MissingDependencies
          /\ Cardinality(seen) = 1
          /\ authRows = <<>>
          /\ reports = {"current.csv"}
    /\ "phonenumbers" \in installed => err # MissingDependencies
    /\ ("phonenumbers" \in installed /\ "pycountry" \notin installed) =>
          \A i \in 1..Len(authRows) :
              authRows[i].name =
                  currentRows[SetMin(RowsOfCode(currentRows, authRows[i].code))].name

\* The run stopped at its first lookup because phonenumbers is missing.
C7_Witness ==
    /\ pc = "crashed"
    /\ err = MissingDependencies
    /\ "phonenumbers" \notin installed
    /\ reports = {"current.csv"}

(* C8: parsing a file of N well-formed entries, other fields interspersed, *)
(* yields N records in source order, the i-th record made of the i-th      *)
(* entry's own name, code, dialCode, minLength and maxLength.              *)
C8_ParseYieldsEveryEntry ==
    pc \in {"auth", "crashed"} =>
        /\ pc = "auth"
        /\ currentRows = OwnRows(dartFile)

=============================================================================
